---- MODULE Spec2Model ----
(***************************************************************************)
(* Model of backend/scripts/remove_unused_swagger_endpoints.py:            *)
(* remove_unused_endpoints() and generate_cleanup_report().                *)
(*                                                                         *)
(* Python values are tagged records.  A Python str is a sequence of text   *)
(* chunks (concatenation is \o, a substring is a contiguous run of         *)
(* chunks); mapping keys and list items are one-chunk strings, written as  *)
(* TLA+ strings.  A dict keeps its insertion order in `keys`.              *)
(* A file holds YAML text: a tree of nodes with the scalar style and the   *)
(* comments the parser drops, or text the parser rejects.                  *)
(***************************************************************************)
EXTENDS Integers, Sequences, FiniteSets, TLC

VARIABLES
    swagger,          \* content of swagger_file, or NoFile
    backups,          \* the swagger_backup_<stamp>.yaml files: stamp -> content
    report,           \* content of SWAGGER_CLEANUP_REPORT.md, or NoFile
    clock,            \* wall clock read by datetime.now(): [day, sec]
    pc,               \* position of the running script
    backup_file,      \* local: the stamp in the backup file's name
    swagger_data,     \* local: the parsed document
    removed_count,    \* local
    original_count,   \* local
    new_count,        \* local
    run,              \* number of runs started so far
    pre,              \* history: swagger / report as the current run found them
    failed_at,        \* history: the step of the current run that raised
    restored,         \* history: the except block of the current run was entered
    note_day,         \* history: the date the annotator of the current run read
    prev              \* history: summary of the previous run

vars == <<swagger, backups, report, clock, pc, backup_file, swagger_data,
          removed_count, original_count, new_count, run, pre, failed_at,
          restored, note_day, prev>>

----------------------------------------------------------------------------
(* Bounds of the model. *)

MaxPaths == 2      \* keys of `paths` in an input document
MaxRuns == 2       \* runs of the script in one behaviour
MaxDay == 1        \* calendar days the clock may advance
MaxSec == 1        \* seconds the clock may advance within a day

----------------------------------------------------------------------------
(* Python values. *)

None == [t |-> "null"]
Str(s) == [t |-> "str", s |-> s]
List(items) == [t |-> "list", items |-> items]
Dict(keys, val) == [t |-> "dict", keys |-> keys, val |-> val]
EmptyDict == Dict(<<>>, [k \in {} |-> None])

Range(s) == {s[i] : i \in 1..Len(s)}

\* needle is a contiguous run of chunks of s (Python: needle in s, both str)
Contains(s, needle) ==
    \E i \in 0..(Len(s) - Len(needle)) :
        \A j \in 1..Len(needle) : s[i + j] = needle[j]

StartsWith(s, p) == Len(p) <= Len(s) /\ SubSeq(s, 1, Len(p)) = p
EndsWith(s, p) == Len(p) <= Len(s) /\ SubSeq(s, Len(s) - Len(p) + 1, Len(s)) = p

Without(s, k) == SelectSeq(s, LAMBDA x : x # k)

\* Operators that can raise return [raised |-> TRUE] or
\* [raised |-> FALSE, v |-> result].
Raise == [raised |-> TRUE]
Ok(v) == [raised |-> FALSE, v |-> v]

\* `k in x` for a str k
PyIn(k, x) ==
    CASE x.t = "dict" -> Ok(k \in Range(x.keys))
      [] x.t = "list" -> Ok(k \in Range(x.items))
      [] x.t = "str" -> Ok(Contains(x.s, <<k>>))
      [] OTHER -> Raise                       \* TypeError: not iterable

\* `len(x)`
PyLen(x) ==
    CASE x.t = "dict" -> Ok(Len(x.keys))
      [] x.t = "list" -> Ok(Len(x.items))
      [] x.t = "str" -> Ok(Len(x.s))
      [] OTHER -> Raise                       \* TypeError: no len()

\* `x[k]` for a str k
PyGetItem(x, k) ==
    IF x.t = "dict" /\ k \in Range(x.keys) THEN Ok(x.val[k])
    ELSE Raise                                \* KeyError / TypeError

\* `x[k] = v` for a str k: a new key goes last, an old one keeps its place
PySetItem(x, k, v) ==
    IF x.t # "dict" THEN Raise                \* TypeError
    ELSE Ok(Dict(IF k \in Range(x.keys) THEN x.keys ELSE Append(x.keys, k),
                 [j \in Range(x.keys) \cup {k} |-> IF j = k THEN v ELSE x.val[j]]))

\* mutant: the key is deleted from a copy, the mapping keeps it
PyDelItemOnCopy(x, k) ==
    IF x.t = "dict" /\ k \in Range(x.keys) THEN Ok(x) ELSE Raise

\* `del x[k]` for a str k
PyDelItem(x, k) ==
    IF x.t = "dict" /\ k \in Range(x.keys)
    THEN Ok(Dict(Without(x.keys, k), [j \in Range(x.keys) \ {k} |-> x.val[j]]))
    ELSE Raise                                \* KeyError / TypeError

\* `x.get(k, default)`
PyGet(x, k, default) ==
    IF x.t # "dict" THEN Raise                \* AttributeError
    ELSE Ok(IF k \in Range(x.keys) THEN x.val[k] ELSE default)

\* the text an f-string puts for {x}: str(x)
PyFormat(x) ==
    CASE x.t = "str" -> x.s
      [] x.t = "null" -> <<"None">>
      [] x.t = "list" -> <<"[">> \o x.items \o <<"]">>
      [] OTHER -> <<"{">> \o x.keys \o <<"}">>

----------------------------------------------------------------------------
(* YAML text. *)

NoFile == [kind |-> "nofile"]
Malformed == [kind |-> "text", wellformed |-> FALSE]
Text(root, comments) ==
    [kind |-> "text", wellformed |-> TRUE, comments |-> comments, root |-> root]

EmptyNode == [n |-> "empty"]
Scalar(style, text) == [n |-> "scalar", style |-> style, text |-> text]
SeqNode(items) == [n |-> "sequence", items |-> items]
MapNode(entries) == [n |-> "mapping", entries |-> entries]

\* plain scalars the resolver reads as null
NullWords == {<<>>, <<"null">>, <<"~">>}

EntryKeys(entries) == [i \in 1..Len(entries) |-> entries[i].k]

RECURSIVE FirstKeys(_)
\* the keys of a mapping node in order of first appearance
FirstKeys(ks) ==
    IF ks = <<>> THEN <<>>
    ELSE LET init == FirstKeys(SubSeq(ks, 1, Len(ks) - 1))
             last == ks[Len(ks)]
         IN  IF last \in Range(init) THEN init ELSE Append(init, last)

RECURSIVE construct(_)
\* yaml.safe_load's constructor on a parsed node
construct(node) ==
    CASE node.n = "empty" -> None
      [] node.n = "scalar" ->
            IF node.style = "plain" /\ node.text \in NullWords THEN None
            ELSE Str(node.text)
      [] node.n = "sequence" -> List(node.items)
      [] OTHER ->
            LET ks == EntryKeys(node.entries)
                lastAt(k) == CHOOSE i \in 1..Len(ks) :
                                /\ ks[i] = k
                                /\ \A j \in (i + 1)..Len(ks) : ks[j] # k
            IN  Dict(FirstKeys(ks),
                     [k \in Range(ks) |-> construct(node.entries[lastAt(k)].v)])

\* yaml.safe_load(f): raises on text that is no YAML
safe_load(content) ==
    IF content.kind = "text" /\ content.wellformed
    THEN Ok(construct(content.root))
    ELSE Raise

RECURSIVE represent(_)
\* yaml.dump's representer; sort_keys=False keeps the dict's order
represent(x) ==
    CASE x.t = "null" -> Scalar("plain", <<"null">>)
      [] x.t = "str" ->
            IF x.s \in NullWords \/ Len(x.s) > 1
            THEN Scalar("quoted", x.s)
            ELSE Scalar("plain", x.s)
      [] x.t = "list" -> SeqNode(x.items)
      [] OTHER ->
            MapNode([i \in 1..Len(x.keys) |->
                        [k |-> x.keys[i], v |-> represent(x.val[x.keys[i]])]])

\* yaml.dump(data, f, ...) run to the end: block style, no comments
dump(x) == Text(represent(x), FALSE)

----------------------------------------------------------------------------
(* The script's literals. *)

unused_endpoints ==
    << "/journal-entries/auto-generate/purchase",
       "/journal-entries/auto-generate/sale",
       "/journal-entries/{id}/post",
       "/journal-entries/{id}/reverse",
       "/journal-entries/summary",
       "/accounts/{account_id}/journal-entries",
       "/api/admin/check-cashbank-gl-links",
       "/api/admin/fix-cashbank-gl-links",
       "/api/monitoring/balance-health",
       "/api/monitoring/balance-sync",
       "/api/monitoring/discrepancies",
       "/api/monitoring/fix-discrepancies",
       "/api/monitoring/sync-status",
       "/api/payments/debug/recent",
       "/api/payments/analytics",
       "/api/payments/export/excel",
       "/api/payments/report/pdf",
       "/api/payments/{id}/pdf",
       "/api/reports/enhanced/financial-metrics",
       "/api/reports/enhanced/profit-loss",
       "/api/reports/enhanced/profit-loss-comparison",
       "/api/v1/admin/security/alerts",
       "/api/v1/admin/security/alerts/{id}/acknowledge",
       "/api/v1/admin/security/cleanup",
       "/api/v1/admin/security/config",
       "/api/v1/admin/security/incidents",
       "/api/v1/admin/security/incidents/{id}",
       "/api/v1/admin/security/incidents/{id}/resolve",
       "/api/v1/admin/security/ip-whitelist",
       "/api/v1/admin/security/metrics" >>

\* datetime.now().strftime('%Y%m%d_%H%M%S'): one name per second
BackupStamp(now) == <<now.day, now.sec>>

\* datetime.now().strftime('%Y-%m-%d')
DateText(day) == ToString(day)

\* the text the annotator puts after the description
NoteText(day) ==
    << "\n\nNOTE: Unused endpoints have been removed based on frontend usage analysis performed on ",
       DateText(day), "." >>

----------------------------------------------------------------------------
(* The steps of remove_unused_endpoints between load and write. *)

Unbound == [t |-> "unbound"]

RECURSIVE RemoveLoopStopsAtFirst(_, _, _)
\* mutant: the loop breaks after its first deletion
RemoveLoopStopsAtFirst(paths, i, count) ==
    IF i > Len(unused_endpoints) THEN Ok([paths |-> paths, count |-> count])
    ELSE LET found == PyIn(unused_endpoints[i], paths)
         IN  IF found.raised THEN Raise
             ELSE IF found.v
                  THEN LET d == PyDelItem(paths, unused_endpoints[i])
                       IN  IF d.raised THEN Raise
                           ELSE Ok([paths |-> d.v, count |-> count + 1])
                  ELSE RemoveLoopStopsAtFirst(paths, i + 1, count)

RECURSIVE RemoveLoop(_, _, _)
\* for endpoint in unused_endpoints: if endpoint in paths: del paths[endpoint]
RemoveLoop(paths, i, count) ==
    IF i > Len(unused_endpoints) THEN Ok([paths |-> paths, count |-> count])
    ELSE LET endpoint == unused_endpoints[i]
             found == PyIn(endpoint, paths)
         IN  IF found.raised THEN Raise
             ELSE IF found.v
                  THEN LET d == PyDelItem(paths, endpoint)
                       IN  IF d.raised THEN Raise
                           ELSE RemoveLoop(d.v, i + 1, count + 1)
                  ELSE RemoveLoop(paths, i + 1, count)

\* mutant: removed_count += 1 sits outside the `if`, counting every endpoint
RemoveEndpointsCountsAll(data) ==
    LET has == PyIn("paths", data)
    IN  IF has.raised THEN Raise
        ELSE IF ~has.v
             THEN Ok([data |-> data, removed_count |-> 0,
                      original_count |-> Unbound, new_count |-> Unbound])
             ELSE LET paths == PyGetItem(data, "paths")
                  IN  IF paths.raised THEN Raise
                      ELSE LET n == PyLen(paths.v)
                               r == RemoveLoop(paths.v, 1, 0)
                           IN  IF n.raised \/ r.raised THEN Raise
                               ELSE Ok([data |-> PySetItem(data, "paths", r.v.paths).v,
                                        removed_count |-> Len(unused_endpoints),
                                        original_count |-> n.v,
                                        new_count |-> PyLen(r.v.paths).v])

\* lines 79-92
RemoveEndpoints(data) ==
    LET has == PyIn("paths", data)
    IN  IF has.raised THEN Raise
        ELSE IF ~has.v
             THEN Ok([data |-> data, removed_count |-> 0,
                      original_count |-> Unbound, new_count |-> Unbound])
             ELSE LET paths == PyGetItem(data, "paths")
                  IN  IF paths.raised THEN Raise
                      ELSE LET n == PyLen(paths.v)
                               r == RemoveLoop(paths.v, 1, 0)
                           IN  IF n.raised \/ r.raised THEN Raise
                               ELSE Ok([data |-> PySetItem(data, "paths", r.v.paths).v,
                                        removed_count |-> r.v.count,
                                        original_count |-> n.v,
                                        new_count |-> PyLen(r.v.paths).v])

\* mutant: the note replaces the description instead of following it
AnnotateOverwrites(data, day) ==
    LET has == PyIn("info", data)
    IN  IF has.raised THEN Raise
        ELSE LET d1 == IF has.v THEN Ok(data) ELSE PySetItem(data, "info", EmptyDict)
             IN  IF d1.raised THEN Raise
                 ELSE LET info == PyGetItem(d1.v, "info")
                      IN  IF info.raised \/ PyGet(info.v, "description", Str(<<>>)).raised
                          THEN Raise
                          ELSE PySetItem(d1.v, "info",
                                   PySetItem(info.v, "description",
                                             Str(NoteText(day))).v)

\* lines 95-99
AnnotateDescription(data, day) ==
    LET has == PyIn("info", data)
    IN  IF has.raised THEN Raise
        ELSE LET d1 == IF has.v THEN Ok(data) ELSE PySetItem(data, "info", EmptyDict)
             IN  IF d1.raised THEN Raise
                 ELSE LET info == PyGetItem(d1.v, "info")
                      IN  IF info.raised THEN Raise
                          ELSE LET original_description ==
                                       PyGet(info.v, "description", Str(<<>>))
                               IN  IF original_description.raised THEN Raise
                                   ELSE PySetItem(d1.v, "info",
                                            PySetItem(info.v, "description",
                                                Str(PyFormat(original_description.v)
                                                    \o NoteText(day))).v)

----------------------------------------------------------------------------
(* generate_cleanup_report: the static template around three computed fields. *)

Entry(path, verb) == [path |-> path, verb |-> verb]

ReportSections ==
    << [title |-> "Journal Entry Operations", entries |->
          << Entry("/journal-entries/auto-generate/purchase", "POST"),
             Entry("/journal-entries/auto-generate/sale", "POST"),
             Entry("/journal-entries/{id}/post", "POST"),
             Entry("/journal-entries/{id}/reverse", "POST"),
             Entry("/journal-entries/summary", "GET") >>],
       [title |-> "Account Operations", entries |->
          << Entry("/accounts/{account_id}/journal-entries", "GET") >>],
       [title |-> "Admin Operations", entries |->
          << Entry("/api/admin/check-cashbank-gl-links", "GET"),
             Entry("/api/admin/fix-cashbank-gl-links", "POST") >>],
       [title |-> "Balance Monitoring", entries |->
          << Entry("/api/monitoring/balance-health", "GET"),
             Entry("/api/monitoring/balance-sync", "GET"),
             Entry("/api/monitoring/discrepancies", "GET"),
             Entry("/api/monitoring/fix-discrepancies", "POST"),
             Entry("/api/monitoring/sync-status", "GET") >>],
       [title |-> "Payment Analytics & Export", entries |->
          << Entry("/api/payments/debug/recent", "GET"),
             Entry("/api/payments/analytics", "GET"),
             Entry("/api/payments/export/excel", "GET"),
             Entry("/api/payments/report/pdf", "GET"),
             Entry("/api/payments/{id}/pdf", "GET") >>],
       [title |-> "Enhanced Reports", entries |->
          << Entry("/api/reports/enhanced/financial-metrics", "GET"),
             Entry("/api/reports/enhanced/profit-loss", "GET"),
             Entry("/api/reports/enhanced/profit-loss-comparison", "GET") >>],
       [title |-> "Security Dashboard", entries |->
          << Entry("/api/v1/admin/security/alerts", "GET"),
             Entry("/api/v1/admin/security/alerts/{id}/acknowledge", "PUT"),
             Entry("/api/v1/admin/security/cleanup", "POST"),
             Entry("/api/v1/admin/security/config", "GET"),
             Entry("/api/v1/admin/security/incidents", "GET"),
             Entry("/api/v1/admin/security/incidents/{id}", "GET"),
             Entry("/api/v1/admin/security/incidents/{id}/resolve", "PUT"),
             Entry("/api/v1/admin/security/ip-whitelist", "GET, POST"),
             Entry("/api/v1/admin/security/metrics", "GET") >>] >>

\* report_content: the heading "Removed Endpoints" stands over every section
report_content(endpoints, count, backup, now) ==
    [kind |-> "report",
     date |-> <<now.day, now.sec>>,
     targeted |-> Len(endpoints),
     removed |-> count,
     backup |-> backup,
     heading |-> "Removed Endpoints",
     sections |-> ReportSections]

----------------------------------------------------------------------------
(* Input documents. *)

\* keys an input `paths` may hold: the first, a middle and the last entry of
\* the removal list, and keys that are not in it (one a prefix of an entry,
\* one an entry with a suffix)
PathUniverse ==
    << "/accounts",
       "/journal-entries/summary",
       "/api/v1/admin/security/metrics",
       "/journal-entries/summary/",
       "/journal-entries/auto-generate/purchase",
       "/journal-entries" >>

RECURSIVE SubSeqsOf(_, _)
\* the subsequences of s with at most n elements
SubSeqsOf(s, n) ==
    IF s = <<>> \/ n = 0 THEN {<<>>}
    ELSE LET rest == SubSeq(s, 2, Len(s))
         IN  SubSeqsOf(rest, n) \cup {<<s[1]>> \o r : r \in SubSeqsOf(rest, n - 1)}

Operations == Dict(<<"get">>, [k \in {"get"} |-> Str(<<"summary">>)])
PathsDict(keys) == Dict(keys, [k \in Range(keys) |-> Operations])

\* what `paths:` may hold; Absent stands for no such key
Absent == [t |-> "absent"]
PathsValues ==
    {Absent, None,
     List(<<"/accounts">>), List(<<"/journal-entries/summary">>),
     Str(<<"see /docs">>), Str(<<"was ", "/journal-entries/summary">>)}
    \cup {PathsDict(ks) : ks \in SubSeqsOf(PathUniverse, MaxPaths)}

InfoDict(desc) ==
    IF desc = Absent THEN Dict(<<"title">>, [k \in {"title"} |-> Str(<<"API">>)])
    ELSE Dict(<<"title", "description">>,
              [k \in {"title", "description"} |->
                  IF k = "title" THEN Str(<<"API">>) ELSE desc])

InfoValues ==
    {Absent, None, Str(<<"contact">>), List(<<"v1">>)}
    \cup {InfoDict(d) : d \in {Absent, None, Str(<<"Accounting API">>),
                               Str(<<"null">>)}}

\* a top-level mapping: openapi, then paths and info when present
Document(paths, info) ==
    LET ks == <<"openapi">> \o (IF paths = Absent THEN <<>> ELSE <<"paths">>)
                            \o (IF info = Absent THEN <<>> ELSE <<"info">>)
    IN  Dict(ks, [k \in Range(ks) |->
                    CASE k = "openapi" -> Str(<<"3.0.0">>)
                      [] k = "paths" -> paths
                      [] OTHER -> info])

\* the input documents: every `paths` with two kinds of `info`, every `info`
\* with two kinds of `paths`, and documents that are no mapping
Documents ==
    {Document(p, i) : p \in PathsValues,
                      i \in {Absent, InfoDict(Str(<<"Accounting API">>))}}
    \cup {Document(p, i) :
             p \in {Absent, PathsDict(SubSeq(PathUniverse, 1, MaxPaths))},
             i \in InfoValues}
    \cup {None, List(<<"paths">>), List(<<"v1">>), Str(<<"info">>), Str(<<"draft">>)}

\* what swagger_file may hold when the script starts
InputFiles ==
    {NoFile, Malformed, Text(EmptyNode, FALSE)}
    \cup {Text(represent(d), TRUE) : d \in Documents}

\* the smaller family the script is run on more than once
RerunDocuments ==
    {Document(p, i) :
        p \in {Absent, List(<<"/accounts">>), PathsDict(<<>>),
               PathsDict(SubSeq(PathUniverse, 1, MaxPaths))},
        i \in {Absent, InfoDict(Str(<<"Accounting API">>))}}
    \cup {None}

RerunFiles ==
    {NoFile} \cup {Text(represent(d), TRUE) : d \in RerunDocuments}

----------------------------------------------------------------------------
(* The state machine. *)

NoPrev == [started |-> FALSE]
Finished == pc \in {"idle", "done", "raised"}

InitWith(files) ==
    /\ swagger \in files
    /\ backups = [s \in {} |-> NoFile]
    /\ report = NoFile
    /\ clock = [day |-> 0, sec |-> 0]
    /\ pc = "idle"
    /\ backup_file = <<0, 0>>
    /\ swagger_data = Unbound
    /\ removed_count = 0
    /\ original_count = Unbound
    /\ new_count = Unbound
    /\ run = 0
    /\ pre = [swagger |-> swagger, report |-> NoFile]
    /\ failed_at = "none"
    /\ restored = FALSE
    /\ note_day = 0
    /\ prev = NoPrev

Init == InitWith(InputFiles)
InitRuns == InitWith(RerunFiles)

\* the clock is about to be read for a file name or for the document
\* (lines 17 and 99): a run is about to start, or to annotate.  The report's
\* date (line 128) is read at the clock as the annotation left it.
ReadsClock ==
    \/ pc \in {"idle", "annotate"}
    \/ pc \in {"done", "raised"} /\ run < MaxRuns

\* the wall clock moves on: a second passes, or midnight does.  Time that
\* passes elsewhere shows only at the next read, so it is let pass there.
Tick ==
    /\ ReadsClock
    /\ \/ /\ clock.sec < MaxSec
          /\ clock' = [clock EXCEPT !.sec = @ + 1]
       \/ /\ clock.day < MaxDay
          /\ clock' = [day |-> clock.day + 1, sec |-> 0]
    /\ UNCHANGED <<swagger, backups, report, pc, backup_file, swagger_data,
                   removed_count, original_count, new_count, run, pre,
                   failed_at, restored, note_day, prev>>

\* the summary the history keeps of the run that just ended
Summary ==
    [started |-> TRUE, ok |-> pc = "done",
     backed_up |-> failed_at # "backup",
     backup_file |-> backup_file,
     pre |-> pre.swagger, post |-> swagger]

\* lines 16-17: the script names its backup file
Begin ==
    /\ run' = run + 1
    /\ backup_file' = BackupStamp(clock)
    /\ pre' = [swagger |-> swagger, report |-> report]
    /\ swagger_data' = Unbound
    /\ removed_count' = 0
    /\ original_count' = Unbound
    /\ new_count' = Unbound
    /\ failed_at' = "none"
    /\ restored' = FALSE
    /\ note_day' = clock.day
    /\ pc' = "backup"
    /\ UNCHANGED <<swagger, backups, report, clock>>

\* the script is started
StartRun ==
    /\ pc = "idle"
    /\ prev' = NoPrev
    /\ Begin

\* the script is started again after a run has ended
Rerun ==
    /\ pc \in {"done", "raised"}
    /\ run < MaxRuns
    /\ prev' = Summary
    /\ Begin

\* an exception leaves the try block for the handler
ToExcept(step) ==
    /\ failed_at' = step
    /\ pc' = "except"

\* line 21, shutil.copy2(swagger_file, backup_file), outside the try block
BackupOk ==
    /\ pc = "backup"
    /\ swagger # NoFile
    /\ backups' = [s \in DOMAIN backups \cup {backup_file} |->
                      IF s = backup_file THEN swagger ELSE backups[s]]
    /\ pc' = "load"
    /\ UNCHANGED <<swagger, report, clock, backup_file, swagger_data,
                   removed_count, original_count, new_count, run, pre,
                   failed_at, restored, note_day, prev>>

\* mutant: the copy sits inside the try block, so its failure is caught
BackupFailsCaught ==
    /\ pc = "backup"
    /\ ToExcept("backup")
    /\ UNCHANGED <<swagger, backups, report, clock, backup_file, swagger_data,
                   removed_count, original_count, new_count, run, pre,
                   restored, note_day, prev>>

\* line 21 raises (no source file, or no permission): nothing catches it
BackupFails ==
    /\ pc = "backup"
    /\ failed_at' = "backup"
    /\ pc' = "raised"
    /\ UNCHANGED <<swagger, backups, report, clock, backup_file, swagger_data,
                   removed_count, original_count, new_count, run, pre,
                   restored, note_day, prev>>

\* lines 75-76
LoadYaml ==
    /\ pc = "load"
    /\ LET r == safe_load(swagger)
       IN  \/ /\ ~r.raised
              /\ swagger_data' = r.v
              /\ pc' = "remove"
              /\ UNCHANGED failed_at
           \/ /\ ToExcept("load")          \* open fails, or the parser raises
              /\ UNCHANGED swagger_data
    /\ UNCHANGED <<swagger, backups, report, clock, backup_file,
                   removed_count, original_count, new_count, run, pre,
                   restored, note_day, prev>>

\* lines 79-92
Remove ==
    /\ pc = "remove"
    /\ LET r == RemoveEndpoints(swagger_data)
       IN  IF r.raised
           THEN /\ ToExcept("remove")
                /\ UNCHANGED <<swagger_data, removed_count, original_count, new_count>>
           ELSE /\ swagger_data' = r.v.data
                /\ removed_count' = r.v.removed_count
                /\ original_count' = r.v.original_count
                /\ new_count' = r.v.new_count
                /\ pc' = "annotate"
                /\ UNCHANGED failed_at
    /\ UNCHANGED <<swagger, backups, report, clock, backup_file, run, pre,
                   restored, note_day, prev>>

\* lines 95-99
Annotate ==
    /\ pc = "annotate"
    /\ note_day' = clock.day
    /\ LET r == AnnotateDescription(swagger_data, clock.day)
       IN  IF r.raised
           THEN /\ ToExcept("annotate")
                /\ UNCHANGED swagger_data
           ELSE /\ swagger_data' = r.v
                /\ pc' = "open"
                /\ UNCHANGED failed_at
    /\ UNCHANGED <<swagger, backups, report, clock, backup_file,
                   removed_count, original_count, new_count, run, pre,
                   restored, prev>>

\* line 103, open(swagger_file, 'w'): truncates the file, or raises
OpenForWrite ==
    /\ pc = "open"
    /\ \/ /\ swagger' = Text(EmptyNode, FALSE)
          /\ pc' = "dump"
          /\ UNCHANGED failed_at
       \/ /\ ToExcept("open")
          /\ UNCHANGED swagger
    /\ UNCHANGED <<backups, report, clock, backup_file, swagger_data,
                   removed_count, original_count, new_count, run, pre,
                   restored, note_day, prev>>

\* what a dump that raises midway has put in the file
PartialTexts(data) ==
    {Text(EmptyNode, FALSE), Malformed}
    \cup {Text(MapNode(SubSeq(represent(data).entries, 1, n)), FALSE) :
             n \in 1..(Len(data.keys) - 1)}

\* line 104, yaml.dump(swagger_data, f, ...)
DumpYaml ==
    /\ pc = "dump"
    /\ \/ /\ swagger' = dump(swagger_data)
          /\ pc' = "report"
          /\ UNCHANGED failed_at
       \/ /\ swagger' \in PartialTexts(swagger_data)
          /\ ToExcept("dump")
    /\ UNCHANGED <<backups, report, clock, backup_file, swagger_data,
                   removed_count, original_count, new_count, run, pre,
                   restored, note_day, prev>>

\* line 110, generate_cleanup_report(unused_endpoints, removed_count, backup_file)
GenerateReport ==
    /\ pc = "report"
    /\ \/ /\ report' = report_content(unused_endpoints, removed_count,
                                      backup_file, clock)
          /\ pc' = "done"
          /\ UNCHANGED failed_at
       \/ /\ ToExcept("report")            \* open(report_file, 'w') raises
          /\ UNCHANGED report
    /\ UNCHANGED <<swagger, backups, clock, backup_file, swagger_data,
                   removed_count, original_count, new_count, run, pre,
                   restored, note_day, prev>>

\* mutant: the handler raises again without copying the backup back
RestoreWithoutCopy ==
    /\ pc = "except"
    /\ restored' = TRUE
    /\ pc' = "raised"
    /\ UNCHANGED <<swagger, backups, report, clock, backup_file, swagger_data,
                   removed_count, original_count, new_count, run, pre,
                   failed_at, note_day, prev>>

\* mutant: the handler copies the source over the backup
RestoreIntoBackup ==
    /\ pc = "except"
    /\ restored' = TRUE
    /\ backups' = IF backup_file \in DOMAIN backups /\ swagger # NoFile
                  THEN [backups EXCEPT ![backup_file] = swagger] ELSE backups
    /\ pc' = "raised"
    /\ UNCHANGED <<swagger, report, clock, backup_file, swagger_data,
                   removed_count, original_count, new_count, run, pre,
                   failed_at, note_day, prev>>

\* lines 112-118: restore the backup and raise again
Restore ==
    /\ pc = "except"
    /\ restored' = TRUE
    /\ swagger' = IF backup_file \in DOMAIN backups
                  THEN backups[backup_file] ELSE swagger
    /\ pc' = "raised"
    /\ UNCHANGED <<backups, report, clock, backup_file, swagger_data,
                   removed_count, original_count, new_count, run, pre,
                   failed_at, note_day, prev>>

Next ==
    \/ Tick
    \/ StartRun
    \/ BackupOk
    \/ BackupFails
    \/ LoadYaml
    \/ Remove
    \/ Annotate
    \/ OpenForWrite
    \/ DumpYaml
    \/ GenerateReport
    \/ Restore

Spec == Init /\ [][Next]_vars

NextRuns == Next \/ Rerun

SpecRuns == InitRuns /\ [][NextRuns]_vars

----------------------------------------------------------------------------
(* What the properties speak of. *)

RemovalSet == Range(unused_endpoints)

\* the document the current run read, and the one now in the file
InputDoc == construct(pre.swagger.root)
WrittenDoc == construct(swagger.root)

IsMapping(x) == x.t = "dict"
Has(x, k) == IsMapping(x) /\ k \in Range(x.keys)
HasPathsMapping(doc) == Has(doc, "paths") /\ IsMapping(doc.val["paths"])

\* the keys of `paths` (the items, when `paths` is a list)
PathKeys(doc) ==
    IF HasPathsMapping(doc) THEN Range(doc.val["paths"].keys)
    ELSE IF Has(doc, "paths") /\ doc.val["paths"].t = "list"
         THEN Range(doc.val["paths"].items)
         ELSE {}

\* info.description, or Absent
DescriptionOf(doc) ==
    IF Has(doc, "info") /\ Has(doc.val["info"], "description")
    THEN doc.val["info"].val["description"]
    ELSE Absent

\* the text the annotator starts from, for a description that is a str or absent
BaseText(doc) ==
    IF DescriptionOf(doc) = Absent THEN <<>> ELSE DescriptionOf(doc).s

AfterBackup ==
    \/ pc \in {"load", "remove", "annotate", "open", "dump", "report", "except", "done"}
    \/ pc = "raised" /\ failed_at # "backup"

----------------------------------------------------------------------------
(* C1 *)

\* C1: after a successful run on a document whose `paths` is a mapping, the
\* keys of the written `paths` are the input's keys minus the removal list:
\* every listed key is gone, every other key is kept, none is added; a key
\* that merely resembles a listed one is kept.
C1_SubsetLaw ==
    (pc = "done" /\ HasPathsMapping(InputDoc)) =>
        /\ HasPathsMapping(WrittenDoc)
        /\ PathKeys(WrittenDoc) = PathKeys(InputDoc) \ RemovalSet
        /\ PathKeys(WrittenDoc) \cap RemovalSet = {}

C1_Witness ==
    /\ pc = "done"
    /\ HasPathsMapping(InputDoc)
    /\ "/journal-entries/summary" \in PathKeys(InputDoc)
    /\ "/journal-entries/summary/" \in PathKeys(InputDoc)
    /\ PathKeys(WrittenDoc) = {"/journal-entries/summary/"}

----------------------------------------------------------------------------
(* C2 *)

----------------------------------------------------------------------------
(* C3 *)

\* C3: from the end of the backup step to the end of the run, the run's
\* backup file holds the source file's content as the run found it.
C3_BackupFidelity ==
    AfterBackup =>
        /\ backup_file \in DOMAIN backups
        /\ backups[backup_file] = pre.swagger

C3_Witness ==
    /\ pc = "done"
    /\ swagger # pre.swagger
    /\ backup_file \in DOMAIN backups
    /\ backups[backup_file] = pre.swagger

----------------------------------------------------------------------------
(* C4 *)

\* C4: of two runs in succession the second makes its backup in another
\* file than the first, so the first run's backup still holds what the
\* source held before the first run.
C4_UniqueBackups ==
    (prev.started /\ prev.backed_up /\ AfterBackup) =>
        /\ backup_file # prev.backup_file
        /\ backups[prev.backup_file] = prev.pre

----------------------------------------------------------------------------
(* C5 *)

\* C5: the removed count of a successful run is the number of listed
\* entries that were keys of the input `paths`, and the final size is the
\* original size less that count; a document without `paths` passes the
\* removal step with a count of 0 and without an error.
C5_CountCorrect ==
    /\ (pc = "done" /\ HasPathsMapping(InputDoc)) =>
           /\ removed_count = Cardinality(PathKeys(InputDoc) \cap RemovalSet)
           /\ original_count = Cardinality(PathKeys(InputDoc))
           /\ new_count = original_count - removed_count
           /\ new_count = Cardinality(PathKeys(WrittenDoc))
    /\ (pc \notin {"idle", "backup", "load"} /\ failed_at \notin {"backup", "load"}
        /\ IsMapping(InputDoc) /\ ~Has(InputDoc, "paths")) =>
           /\ failed_at # "remove"
           /\ pc # "remove" => (removed_count = 0 /\ original_count = Unbound)

C5_Witness ==
    /\ pc = "done"
    /\ HasPathsMapping(InputDoc)
    /\ removed_count = 1
    /\ original_count = 2
    /\ new_count = 1

----------------------------------------------------------------------------
(* C6 *)

\* C6: whatever document the parser returns, neither the removal step nor
\* the annotation step raises.
C6_RemoverAnnotatorNeverRaise == failed_at \notin {"remove", "annotate"}

----------------------------------------------------------------------------
(* C7 *)

\* C7: after a successful run on a document whose description is a str or
\* absent, the written info.description is the original description (the
\* empty text when `info` or `description` was absent) followed by the note
\* with the date read by the run: it starts with the one and ends with the
\* other, and nothing else is in it.
C7_DescriptionAppend ==
    (pc = "done" /\ DescriptionOf(InputDoc).t \in {"str", "absent"}) =>
        /\ Has(WrittenDoc, "info")
        /\ DescriptionOf(WrittenDoc).t = "str"
        /\ StartsWith(DescriptionOf(WrittenDoc).s, BaseText(InputDoc))
        /\ EndsWith(DescriptionOf(WrittenDoc).s, NoteText(note_day))
        /\ DescriptionOf(WrittenDoc).s = BaseText(InputDoc) \o NoteText(note_day)

C7_Witness ==
    /\ pc = "done"
    /\ DescriptionOf(InputDoc) = Str(<<"Accounting API">>)
    /\ DescriptionOf(WrittenDoc).s = <<"Accounting API">> \o NoteText(note_day)

----------------------------------------------------------------------------
(* C8 *)

\* C8: a successful run that follows a successful run removes nothing and
\* leaves the key set of `paths` as the first run wrote it, yet rewrites the
\* file: the description is the first run's with one more note, so it ends
\* with two notes.
C8_SecondRun ==
    (pc = "done" /\ prev.started /\ prev.ok) =>
        /\ removed_count = 0
        /\ PathKeys(WrittenDoc) = PathKeys(construct(prev.post.root))
        /\ swagger # prev.post
        /\ DescriptionOf(WrittenDoc).s =
              DescriptionOf(construct(prev.post.root)).s \o NoteText(note_day)
        /\ \E d \in 0..MaxDay :
              EndsWith(DescriptionOf(WrittenDoc).s,
                       NoteText(d) \o NoteText(note_day))

C8_Witness ==
    /\ pc = "done"
    /\ prev.started
    /\ prev.ok
    /\ PathKeys(construct(prev.pre.root)) \cap RemovalSet # {}
    /\ PathKeys(WrittenDoc) \cap RemovalSet = {}
    /\ removed_count = 0

----------------------------------------------------------------------------
(* C9 *)

\* C9: when the backup copy fails the error leaves at once: the handler is
\* not entered, the source file is neither parsed nor changed, and no
\* report is written.
C9_BackupFailurePropagates ==
    failed_at = "backup" =>
        /\ pc = "raised"
        /\ ~restored
        /\ swagger_data = Unbound
        /\ swagger = pre.swagger
        /\ report = pre.report

C9_Witness ==
    /\ failed_at = "backup"
    /\ pc = "raised"
    /\ swagger # NoFile

----------------------------------------------------------------------------
(* C10 *)

\* how the report marks a target
Marking(r, e) ==
    IF \E i \in 1..Len(r.sections) :
          \E j \in 1..Len(r.sections[i].entries) :
              r.sections[i].entries[j].path = e
    THEN (IF r.heading = "Removed Endpoints" THEN "removed" ELSE "not-found")
    ELSE "unlisted"

\* C10: the report of a successful run marks each target by its outcome:
\* removed when it was a key of the input `paths`, not-found when it was not.
C10_ReportReflectsOutcome ==
    pc = "done" =>
        \A e \in RemovalSet :
            Marking(report, e) =
                (IF e \in PathKeys(InputDoc) THEN "removed" ELSE "not-found")

====
